---- MODULE Spec2Model ----
(***************************************************************************)
(* Model of vs-tool (src/vs-tool.js): the interactive wizard that builds   *)
(* a Virtual Server manifest, submits it, and keeps named templates in a   *)
(* persistent store.  One process run is one command (new, template        *)
(* --from-save, template --delete, template --list); the persisted store   *)
(* survives across runs, every other variable is per-process state.        *)
(***************************************************************************)
EXTENDS Integers, Sequences, FiniteSets, TLC

\* ------------------------------------------------------------------ bounds
MaxRuns == 2        \* process runs in one behaviour
MaxCreates == 2     \* create invocations in one run (caps operator retries)
MaxUsers == 3       \* users added in one wizard run

\* -------------------------------------------------------- program constants
StatusCreated == 201

\* ------------------------------------------------------------ input domains
Names == {"a", "b"}                 \* VS names, also typed as template names
\* names typed for a template
TemplateNames == Names \cup {"constructor", "__proto__"}
Namespaces == {"default", "dev"}
UserNames == {"u1", "u2"}
Passwords == {"pw"}
NoArg == ""                         \* an option that was not given (undefined)
CreateOutcomes ==
    { [thrown |-> FALSE, statusCode |-> StatusCreated],
      [thrown |-> FALSE, statusCode |-> 500],
      [thrown |-> TRUE, statusCode |-> 0] }

\* JavaScript undefined, as a value distinct from every manifest
Undefined == [undefined |-> TRUE]
Truthy(v) == v # Undefined

VARIABLES
    stored,        \* persisted item '_templates' of the node-persist store
    templates,     \* global `templates`, loaded by init()
    runs,          \* processes started so far
    cmd,           \* command of the running process
    arg,           \* its templateName option (argv.delete / argv.fromSave)
    pc,            \* position of the process
    exitBy,        \* how the process ended: return, cancel (process.exit), crash
    asked,         \* prompts shown to the operator in this run
    diag,          \* diagnostic printed / validation message shown last
    baseResponse,  \* answers of basePrompts
    typed,         \* value last submitted at the template-name prompt
    users,         \* main(): let users
    user,          \* answers of the userPrompts pass in progress
    cancelled,     \* main(): let cancelled
    vs,            \* the manifest handed to applyVS
    vsRef,         \* key of the template object that vs aliases, NoArg if fresh
    confirmVS,     \* answer to the confirmation toggle
    creates,       \* client.virtualServer.create invocations
    retries,       \* affirmed 'Try again?' answers
    createSuccess, \* applyFunc: const createSuccess of the last attempt
    tryAgain,      \* answer to the last 'Try again?'
    applyResult    \* value applyVS resolved to

vars == << stored, templates, runs, cmd, arg, pc, exitBy, asked, diag,
           baseResponse, typed, users, user, cancelled, vs, vsRef, confirmVS,
           creates, retries, createSuccess, tryAgain, applyResult >>

userVars == << users, user, cancelled >>
applyVars == << confirmVS, creates, retries, createSuccess, tryAgain, applyResult >>

\* The wizard's question flow with its full answer sets (main(), from the
\* first prompt to the price shown by applyVS).  The process-level steps
\* above carry only the identity and the users of the answers.
VARIABLES
    env,             \* what main() looked up: images, definitions, options, services
    stage,           \* position of the question flow
    answersBase,     \* main(): baseResponse, every key
    answersResource, \* main(): resouceResponse
    answersNetwork,  \* main(): networkResponse
    typedPorts,      \* the texts submitted at the tcpPorts and udpPorts questions
    manifest,        \* the manifest buildVS returned
    price            \* applyVS: const price

flowVars == << env, stage, answersBase, answersResource, answersNetwork,
               typedPorts, manifest, price >>

\* The node-persist store with its clock (init(), the cached lookups of
\* main(), the template writes).
VARIABLES
    clock,           \* the time, in minutes
    items,           \* the store: key -> [value, expires]
    loaded,          \* what the running process read: key -> value
    fetched,         \* the keys the running process fetched remotely, with the cause
    written,         \* the template set of the last '_templates' write
    phase            \* position of the running process in its store accesses

cacheVars == << clock, items, loaded, fetched, written, phase >>

auxVars == << flowVars, cacheVars >>
allVars == << vars, flowVars, cacheVars >>

\* ------------------------------------------------------------ object helpers
EmptyObject == [n \in {} |-> Undefined]
\* the properties every plain object inherits from Object.prototype
PrototypeKeys ==
    {"constructor", "__defineGetter__", "__defineSetter__", "hasOwnProperty",
     "__lookupGetter__", "__lookupSetter__", "isPrototypeOf", "propertyIsEnumerable",
     "toString", "valueOf", "__proto__", "toLocaleString"}
\* what is found under the inherited key k: Object.prototype itself under
\* __proto__, else a function; both are truthy and have no metadata
Inherited(k) == IF k = "__proto__" THEN [prototype |-> "Object"] ELSE [function |-> k]
\* obj[k]: an own property, else an inherited one, else undefined
Lookup(obj, k) ==
    IF k \in DOMAIN obj THEN obj[k]
    ELSE IF k \in PrototypeKeys THEN Inherited(k)
    ELSE Undefined
\* v.metadata is defined: v is a descriptor, not undefined or a function
HasMetadata(v) == "metadata" \in DOMAIN v
\* {...obj, [k]: v}
Spread(obj, k, v) == [n \in (DOMAIN obj) \cup {k} |-> IF n = k THEN v ELSE obj[n]]
\* the rest pattern written with the literal key `templateName` instead of
\* the computed key [templateName]
Rest_literalKey(obj, k) == [n \in (DOMAIN obj) \ {"templateName"} |-> obj[n]]
\* const {[k]: _, ...rest} = obj
Rest(obj, k) == [n \in (DOMAIN obj) \ {k} |-> obj[n]]

NoUser == [username |-> "", password |-> ""]
NoBase == [name |-> "", namespace |-> ""]

\* util.js newVirtualServerManifest({name, namespace})
newVirtualServerManifest(name, namespace) ==
    [metadata |-> [name |-> name, namespace |-> namespace]]

\* buildVS: the manifest from the collected answers
buildVS(base, us) ==
    [metadata |-> newVirtualServerManifest(base.name, base.namespace).metadata,
     spec |-> [users |-> us]]

\* What the persisted store may hold when the first process of a behaviour
\* starts: nothing, or templates that earlier `new` runs saved with
\* storage.setItem('_templates', {...templates, [name]: vs}, {ttl: false})
\* (the name of a template need not be the name of its server)
InitialStores ==
    LET savedA == buildVS([name |-> "a", namespace |-> "default"],
                          << [username |-> "u1", password |-> "pw"] >>)
        savedB == buildVS([name |-> "a", namespace |-> "dev"], << >>)
    IN  { EmptyObject,
          Spread(EmptyObject, "a", savedA),
          Spread(Spread(EmptyObject, "a", savedA), "b", savedB) }

\* no question flow is running
FlowIdle ==
    /\ env = EmptyObject
    /\ stage = "off"
    /\ answersBase = EmptyObject
    /\ answersResource = EmptyObject
    /\ answersNetwork = EmptyObject
    /\ typedPorts = EmptyObject
    /\ manifest = Undefined
    /\ price = Undefined

\* an empty store directory, no process running
CacheIdle ==
    /\ clock = 0
    /\ items = EmptyObject
    /\ loaded = EmptyObject
    /\ fetched = EmptyObject
    /\ written = EmptyObject
    /\ phase = "idle"

\* ------------------------------------------------------------------- Init
Init ==
    /\ stored \in InitialStores
    /\ templates = EmptyObject
    /\ runs = 0
    /\ cmd = "none"
    /\ arg = NoArg
    /\ pc = "idle"
    /\ exitBy = "none"
    /\ asked = {}
    /\ diag = "none"
    /\ baseResponse = NoBase
    /\ typed = NoArg
    /\ users = << >>
    /\ user = NoUser
    /\ cancelled = FALSE
    /\ vs = Undefined
    /\ vsRef = NoArg
    /\ confirmVS = "unasked"
    /\ creates = 0
    /\ retries = 0
    /\ createSuccess = FALSE
    /\ tryAgain = "unasked"
    /\ applyResult = "pending"
    /\ FlowIdle
    /\ CacheIdle

\* the process ends
Exit(how) ==
    /\ pc' = "done"
    /\ exitBy' = how

\* a handler that notes the cancellation and returns instead of exiting
onCancel_returns ==
    /\ exitBy' = "cancel"
    /\ pc' = pc

\* onCancel: process.exit(0)
onCancel == Exit("cancel")

\* The handler yargs dispatches to after init() resolves
Dispatch(c) ==
    CASE c = "new" -> "main"
      [] c = "delete" -> "deleteTemplate"
      [] c = "list" -> "list"
      [] c = "use" -> "useTemplate"

\* A process starts: the globals have their initial values (templates = {})
\* and init() runs storage.init and client.init().  When one of them
\* rejects, init() rejects: no handler runs and the process ends with exit
\* code 1.
Start(c, a, clientOk) ==
    /\ pc \in {"idle", "done"}
    /\ runs < MaxRuns
    /\ c = "delete" => a # NoArg          \* if(argv.delete)
    /\ c \in {"new", "list"} => a = NoArg
    /\ runs' = runs + 1
    /\ cmd' = c
    /\ arg' = a
    /\ templates' = EmptyObject
    /\ pc' = (IF clientOk THEN "initTemplates" ELSE "done")
    /\ exitBy' = (IF clientOk THEN "none" ELSE "crash")
    /\ asked' = {}
    /\ diag' = (IF clientOk THEN "none" ELSE "init rejected")
    /\ baseResponse' = NoBase
    /\ typed' = NoArg
    /\ users' = << >>
    /\ user' = NoUser
    /\ cancelled' = FALSE
    /\ vs' = Undefined
    /\ vsRef' = NoArg
    /\ confirmVS' = "unasked"
    /\ creates' = 0
    /\ retries' = 0
    /\ createSuccess' = FALSE
    /\ tryAgain' = "unasked"
    /\ applyResult' = "pending"
    /\ UNCHANGED stored
    /\ UNCHANGED auxVars

\* init(), line 29: templates = await storage.getItem('_templates') || {}
InitTemplates ==
    /\ pc = "initTemplates"
    /\ templates' = stored
    /\ pc' = "initOptions"
    /\ UNCHANGED << stored, runs, cmd, arg, exitBy, asked, diag, baseResponse, typed,
                    vs, vsRef >>
    /\ UNCHANGED userVars
    /\ UNCHANGED applyVars
    /\ UNCHANGED auxVars

\* init(), lines 30-39: the options are read from the store or fetched; when
\* the fetch rejects, init() rejects with the templates loaded; else init()
\* resolves and yargs dispatches the command
InitOptions(fetchOk) ==
    /\ pc = "initOptions"
    /\ IF fetchOk
         THEN /\ pc' = Dispatch(cmd)
              /\ UNCHANGED << exitBy, diag >>
         ELSE /\ diag' = "init rejected"
              /\ Exit("crash")
    /\ UNCHANGED << stored, templates, runs, cmd, arg, asked, baseResponse, typed,
                    vs, vsRef >>
    /\ UNCHANGED userVars
    /\ UNCHANGED applyVars
    /\ UNCHANGED auxVars

\* template --list: prints Object.keys(templates)
ListTemplates ==
    /\ pc = "list"
    /\ diag' = "list"
    /\ Exit("return")
    /\ UNCHANGED << stored, templates, runs, cmd, arg, asked, baseResponse, typed,
                    vs, vsRef >>
    /\ UNCHANGED userVars
    /\ UNCHANGED applyVars
    /\ UNCHANGED auxVars

\* deleteTemplate: the guard that prints 'Template ... not found.'
deleteNotFound(tpls, templateName) == DOMAIN tpls = {}

\* deleteTemplate({templateName})
DeleteTemplate ==
    /\ pc = "deleteTemplate"
    /\ IF deleteNotFound(templates, arg)
         THEN /\ diag' = "notFound"
              /\ UNCHANGED stored
         ELSE /\ stored' = Rest(templates, arg)
              /\ UNCHANGED diag
    /\ Exit("return")
    /\ UNCHANGED << templates, runs, cmd, arg, asked, baseResponse, typed, vs, vsRef >>
    /\ UNCHANGED userVars
    /\ UNCHANGED applyVars
    /\ UNCHANGED auxVars

\* useTemplate({templateName}) up to its first prompt.  With a templateName
\* the identity prompts are built at once and prompts() evaluates their
\* `initial: () => vs.metadata.name` before anything is shown: a TypeError
\* when templates[templateName] is undefined or an inherited function.
UseTemplate ==
    /\ pc = "useTemplate"
    /\ IF DOMAIN templates = {}
         THEN /\ diag' = "noTemplates"
              /\ Exit("return")
              /\ UNCHANGED << vs, vsRef, asked >>
         ELSE IF arg # NoArg
           THEN /\ vs' = Lookup(templates, arg)
                /\ vsRef' = IF HasMetadata(vs') THEN arg ELSE NoArg
                /\ IF HasMetadata(vs')
                     THEN /\ pc' = "identity"
                          /\ asked' = asked \cup {"identity"}
                          /\ UNCHANGED << diag, exitBy >>
                     ELSE /\ diag' = "TypeError"
                          /\ Exit("crash")
                          /\ UNCHANGED asked
           ELSE /\ pc' = "select"
                /\ asked' = asked \cup {"select"}
                /\ UNCHANGED << vs, vsRef, diag, exitBy >>
    /\ UNCHANGED << stored, templates, runs, cmd, arg, baseResponse, typed >>
    /\ UNCHANGED userVars
    /\ UNCHANGED applyVars
    /\ UNCHANGED auxVars

\* the 'Select a template.' autocomplete: the value is the title that was
\* typed or selected, undefined when no title matches; format: v => templates[v];
\* then the identity prompts evaluate vs.metadata.name: a TypeError when vs
\* is undefined
selectValue(tpls, n) == IF n \in DOMAIN tpls THEN tpls[n] ELSE Undefined
SelectTemplate(n) ==
    /\ pc = "select"
    /\ vs' = selectValue(templates, n)
    /\ IF HasMetadata(vs')
         THEN /\ vsRef' = n
              /\ pc' = "identity"
              /\ asked' = asked \cup {"identity"}
              /\ UNCHANGED << exitBy, diag >>
         ELSE /\ vsRef' = NoArg
              /\ diag' = "TypeError"
              /\ Exit("crash")
              /\ UNCHANGED asked
    /\ UNCHANGED << stored, templates, runs, cmd, arg, baseResponse, typed >>
    /\ UNCHANGED userVars
    /\ UNCHANGED applyVars
    /\ UNCHANGED auxVars

\* vs.metadata.name = ...; vs.metadata.namespace = ... on the object vs refers to
setIdentity(obj, name, namespace) ==
    [obj EXCEPT !.metadata = [name |-> name, namespace |-> namespace]]

\* what the assignment through vs does to the global templates: vs IS
\* templates[ref], not a copy of it
aliasWrite(tpls, ref, obj) ==
    IF ref \in DOMAIN tpls THEN [tpls EXCEPT ![ref] = obj] ELSE tpls

\* the name / namespace prompts of useTemplate, then applyVS(vs) up to its
\* confirmation prompt; applyVS calls priceVS first, which throws on a
\* template saved without a root size when the catalog lists its type
IdentityPrompts(n, ns, priceThrows) ==
    /\ pc = "identity"
    /\ vs' = setIdentity(vs, n, ns)
    /\ templates' = aliasWrite(templates, vsRef, vs')
    /\ IF priceThrows
         THEN /\ diag' = "TypeError"
              /\ Exit("crash")
              /\ UNCHANGED asked
         ELSE /\ pc' = "confirm"
              /\ asked' = asked \cup {"confirmVS"}
              /\ UNCHANGED << exitBy, diag >>
    /\ UNCHANGED << stored, runs, cmd, arg, baseResponse, typed, vsRef >>
    /\ UNCHANGED userVars
    /\ UNCHANGED applyVars
    /\ UNCHANGED auxVars

\* ------------------------------------------------------------ main(): wizard
\* main() up to its first prompt (the cached lookups come before it);
\* client.pvc.list() has no catch: when it rejects, main() rejects
Main(pvcsOk) ==
    /\ pc = "main"
    /\ IF pvcsOk
         THEN /\ pc' = "base"
              /\ asked' = asked \cup {"base"}
              /\ UNCHANGED << exitBy, diag >>
         ELSE /\ diag' = "pvc list rejected"
              /\ Exit("crash")
              /\ UNCHANGED asked
    /\ UNCHANGED << stored, templates, runs, cmd, arg,
                    baseResponse, typed, vs, vsRef >>
    /\ UNCHANGED userVars
    /\ UNCHANGED applyVars
    /\ UNCHANGED auxVars

\* const baseResponse = await prompts(basePrompts, {onCancel})
BasePrompts(n, ns) ==
    /\ pc = "base"
    /\ baseResponse' = [name |-> n, namespace |-> ns]
    /\ pc' = "resource"
    /\ asked' = asked \cup {"resource"}
    /\ UNCHANGED << stored, templates, runs, cmd, arg, exitBy, diag, typed, vs, vsRef >>
    /\ UNCHANGED userVars
    /\ UNCHANGED applyVars
    /\ UNCHANGED auxVars

\* const resouceResponse = await prompts(resourcePrompts, {onCancel}), then
\* the user loop starts with its first 'Add a User?' toggle
\* It ends the process instead when the choices of the gpu / cpu question
\* throw (no definition matched) or when client.service.list rejects.
ResourceOutcomes == {"answered", "TypeError", "service list rejected"}
ResourcePrompts(outcome) ==
    /\ pc = "resource"
    /\ IF outcome = "answered"
         THEN /\ pc' = "addUser"
              /\ asked' = asked \cup {"addUser"}
              /\ UNCHANGED << exitBy, diag >>
         ELSE /\ diag' = outcome
              /\ Exit("crash")
              /\ UNCHANGED asked
    /\ UNCHANGED << stored, templates, runs, cmd, arg,
                    baseResponse, typed, vs, vsRef >>
    /\ UNCHANGED userVars
    /\ UNCHANGED applyVars
    /\ UNCHANGED auxVars

\* the loop condition: (await prompts({... 'addUser' ...}, {onCancel})).addUser
AddUserToggle(addUser) ==
    /\ pc = "addUser"
    /\ addUser => Len(users) < MaxUsers
    /\ IF addUser
         THEN /\ pc' = "username"
              /\ asked' = asked \cup {"username"}
              /\ cancelled' = FALSE
              /\ user' = NoUser
         ELSE /\ pc' = "network"
              /\ asked' = asked \cup {"network"}
              /\ UNCHANGED << cancelled, user >>
    /\ UNCHANGED << stored, templates, runs, cmd, arg, exitBy, diag,
                    baseResponse, typed, users, vs, vsRef >>
    /\ UNCHANGED applyVars
    /\ UNCHANGED auxVars

\* a validator that accepts every username
usernameValid_always(us, v) == TRUE
\* validate: v => users.every(u => u.username !== v) || 'User already added.'
usernameValid(us, v) == \A i \in 1..Len(us) : us[i].username # v

\* the 'Enter a username.' prompt answered: re-prompted while the validator
\* rejects, else the pass goes on to the password prompt
Username(v) ==
    /\ pc = "username"
    /\ IF usernameValid(users, v)
         THEN /\ user' = [user EXCEPT !.username = v]
              /\ pc' = "password"
              /\ asked' = asked \cup {"password"}
              /\ diag' = "none"
         ELSE /\ diag' = "User already added."
              /\ UNCHANGED << user, pc, asked >>
    /\ UNCHANGED << stored, templates, runs, cmd, arg, exitBy, baseResponse, typed,
                    users, cancelled, vs, vsRef >>
    /\ UNCHANGED applyVars
    /\ UNCHANGED auxVars

\* the pass appended without the `if(cancelled) break` before it
usersAfterPass_keepPartial(us, u, wasCancelled) == Append(us, u)
\* the users list after a userPrompts pass returned `u`:
\* if(cancelled) break; users = [...users, user]
usersAfterPass(us, u, wasCancelled) ==
    IF wasCancelled THEN us ELSE Append(us, u)

\* where the loop goes after a pass: break, or i++ and the toggle again
pcAfterPass(wasCancelled) == IF wasCancelled THEN "network" ELSE "addUser"

\* the username prompt cancelled: onCancel: () => cancelled = true returns
\* true, so prompts() does not abort the pass and goes on to the password
UsernameCancel ==
    /\ pc = "username"
    /\ cancelled' = TRUE
    /\ pc' = "password"
    /\ asked' = asked \cup {"password"}
    /\ UNCHANGED << stored, templates, runs, cmd, arg, exitBy, diag,
                    baseResponse, typed, users, user, vs, vsRef >>
    /\ UNCHANGED applyVars
    /\ UNCHANGED auxVars

\* the 'Enter a password.' prompt answered: the pass returns
Password(p) ==
    /\ pc = "password"
    /\ user' = [user EXCEPT !.password = p]
    /\ users' = usersAfterPass(users, user', cancelled)
    /\ pc' = pcAfterPass(cancelled)
    /\ asked' = asked \cup {pc'}
    /\ UNCHANGED << stored, templates, runs, cmd, arg, exitBy, diag,
                    baseResponse, typed, cancelled, vs, vsRef >>
    /\ UNCHANGED applyVars
    /\ UNCHANGED auxVars

\* the password prompt cancelled: it was the last question, the pass returns
PasswordCancel ==
    /\ pc = "password"
    /\ cancelled' = TRUE
    /\ users' = usersAfterPass(users, user, cancelled')
    /\ pc' = pcAfterPass(cancelled')
    /\ asked' = asked \cup {pc'}
    /\ UNCHANGED << stored, templates, runs, cmd, arg, exitBy, diag,
                    baseResponse, typed, user, vs, vsRef >>
    /\ UNCHANGED applyVars
    /\ UNCHANGED auxVars

\* const networkResponse = await prompts(networkPrompts, {onCancel});
\* const vs = buildVS(...); applyVS(vs) up to its confirmation prompt
\* priceVS, called first by applyVS, throws a TypeError when an option
\* matches and the root size is undefined: the process ends
NetworkPrompts(priceThrows) ==
    /\ pc = "network"
    /\ vs' = buildVS(baseResponse, users)
    /\ vsRef' = NoArg
    /\ IF priceThrows
         THEN /\ diag' = "TypeError"
              /\ Exit("crash")
              /\ UNCHANGED asked
         ELSE /\ pc' = "confirm"
              /\ asked' = asked \cup {"confirmVS"}
              /\ UNCHANGED << exitBy, diag >>
    /\ UNCHANGED << stored, templates, runs, cmd, arg, baseResponse, typed >>
    /\ UNCHANGED userVars
    /\ UNCHANGED applyVars
    /\ UNCHANGED auxVars

\* ------------------------------------------------------- applyVS / applyFunc
\* where the caller goes once applyVS resolved: main() returns on a falsy
\* result and asks the template questions otherwise; useTemplate ignores it
pcAfterApply(c, result) ==
    IF c = "new" /\ result THEN "saveToggle" ELSE "done"

\* applyVS resolves to `result`
ApplyReturns(result) ==
    /\ applyResult' = (IF result THEN "true" ELSE "false")
    /\ pc' = pcAfterApply(cmd, result)
    /\ exitBy' = (IF pc' = "done" THEN "return" ELSE exitBy)
    /\ asked' = (IF pc' = "done" THEN asked ELSE asked \cup {"saveTemplate"})

\* applyFunc() called without looking at confirmVS
applyVSProceeds_always(confirm) == TRUE
\* if(confirmVS) { return applyFunc() }
applyVSProceeds(confirm) == confirm

\* the 'Please confirm the Virtual Server spec above.' toggle answered
ConfirmVS(confirm) ==
    /\ pc = "confirm"
    /\ confirmVS' = (IF confirm THEN "yes" ELSE "no")
    /\ IF applyVSProceeds(confirm)
         THEN /\ pc' = "create"
              /\ UNCHANGED << applyResult, exitBy, asked >>
         ELSE ApplyReturns(FALSE)
    /\ UNCHANGED << stored, templates, runs, cmd, arg, diag, baseResponse, typed,
                    vs, vsRef, creates, retries, createSuccess, tryAgain >>
    /\ UNCHANGED userVars
    /\ UNCHANGED auxVars

\* the .then / .catch of client.virtualServer.create(vs)
createSucceeded(o) == (~o.thrown) /\ o.statusCode = StatusCreated

\* the value applyFunc returns when it does not recurse (its last statement
\* is `return true`, reached after a success and after a declined retry)
applyFuncReturn(success, again) == TRUE

\* applyFunc: one create attempt and its outcome `o`
Create(o) ==
    /\ pc = "create"
    /\ creates' = creates + 1
    /\ createSuccess' = createSucceeded(o)
    /\ IF createSuccess'
         THEN /\ ApplyReturns(applyFuncReturn(TRUE, FALSE))
              /\ diag' = "created"
         ELSE /\ pc' = "tryAgain"
              /\ asked' = asked \cup {"tryAgain"}
              /\ diag' = (IF o.thrown THEN "createError" ELSE "unknownError")
              /\ UNCHANGED << applyResult, exitBy >>
    /\ UNCHANGED << stored, templates, runs, cmd, arg, baseResponse, typed, vs, vsRef,
                    confirmVS, retries, tryAgain >>
    /\ UNCHANGED userVars
    /\ UNCHANGED auxVars

\* the retry taken without looking at the answer
retryProceeds_auto(again) == TRUE
\* if(tryAgain) { return applyFunc() }
retryProceeds(again) == again

\* the 'Try again?' toggle answered
TryAgain(again) ==
    /\ pc = "tryAgain"
    /\ again => creates < MaxCreates
    /\ tryAgain' = (IF again THEN "yes" ELSE "no")
    /\ IF retryProceeds(again)
         THEN /\ retries' = retries + 1
              /\ pc' = "create"
              /\ UNCHANGED << applyResult, exitBy, asked >>
         ELSE /\ ApplyReturns(applyFuncReturn(createSuccess, again))
              /\ UNCHANGED retries
    /\ UNCHANGED << stored, templates, runs, cmd, arg, diag, baseResponse, typed,
                    vs, vsRef, confirmVS, creates, createSuccess >>
    /\ UNCHANGED userVars
    /\ UNCHANGED auxVars

\* ------------------------------------------------------------ template save
\* the 'Would you like to save this configuration as a template?' toggle;
\* declined: templateResponse.confirmSaveTemplate is false and main() ends
SaveToggle(confirmSaveTemplate) ==
    /\ pc = "saveToggle"
    /\ IF confirmSaveTemplate
         THEN /\ pc' = "saveName"
              /\ UNCHANGED exitBy
         ELSE Exit("return")
    /\ UNCHANGED << stored, templates, runs, cmd, arg, asked, diag,
                    baseResponse, typed, vs, vsRef >>
    /\ UNCHANGED userVars
    /\ UNCHANGED applyVars
    /\ UNCHANGED auxVars

\* a validator that accepts every name
nameTaken_never(tpls, v) == FALSE
\* validate: v => (!!templates[v]) ? 'Template name already taken.' : true
nameTaken(tpls, v) == Truthy(Lookup(tpls, v))

\* the 'Enter a name for the template.' prompt answered: re-prompted while
\* the validator rejects, else
\* storage.setItem('_templates', {...templates, [name]: vs}, {ttl: false})
SaveName(v) ==
    /\ pc = "saveName"
    /\ typed' = v
    /\ IF nameTaken(templates, v)
         THEN /\ diag' = "Template name already taken."
              /\ UNCHANGED << stored, pc, exitBy >>
         ELSE /\ stored' = Spread(templates, v, vs)
              /\ diag' = "Template saved"
              /\ Exit("return")
    /\ UNCHANGED << templates, runs, cmd, arg, asked, baseResponse, vs, vsRef >>
    /\ UNCHANGED userVars
    /\ UNCHANGED applyVars
    /\ UNCHANGED auxVars

\* ------------------------------------------------------------- cancellation
\* userPrompts given the global onCancel too
TopLevelPrompts_withUserPrompts ==
    {"base", "resource", "addUser", "username", "password", "network",
     "confirm", "tryAgain", "saveToggle", "saveName", "select", "identity"}
\* the prompts that are given the global onCancel
TopLevelPrompts ==
    {"base", "resource", "addUser", "network", "confirm", "tryAgain",
     "saveToggle", "saveName", "select", "identity"}

\* the operator cancels a prompt that was given {onCancel}
Cancel ==
    /\ pc \in TopLevelPrompts
    /\ onCancel
    /\ UNCHANGED << stored, templates, runs, cmd, arg, asked, diag,
                    baseResponse, typed, vs, vsRef >>
    /\ UNCHANGED userVars
    /\ UNCHANGED applyVars
    /\ UNCHANGED auxVars

\* --------------------------------------------------------------------- Next
Next ==
    \/ \E c \in {"new", "delete", "list", "use"}, a \in Names \cup {NoArg},
          clientOk \in BOOLEAN : Start(c, a, clientOk)
    \/ InitTemplates
    \/ \E fetchOk \in BOOLEAN : InitOptions(fetchOk)
    \/ ListTemplates
    \/ DeleteTemplate
    \/ UseTemplate
    \/ \E n \in TemplateNames : SelectTemplate(n)
    \/ \E n \in Names, ns \in Namespaces, priceThrows \in BOOLEAN :
          IdentityPrompts(n, ns, priceThrows)
    \/ \E pvcsOk \in BOOLEAN : Main(pvcsOk)
    \/ \E n \in Names, ns \in Namespaces : BasePrompts(n, ns)
    \/ \E outcome \in ResourceOutcomes : ResourcePrompts(outcome)
    \/ \E b \in BOOLEAN : AddUserToggle(b)
    \/ \E v \in UserNames : Username(v)
    \/ UsernameCancel
    \/ \E p \in Passwords : Password(p)
    \/ PasswordCancel
    \/ \E priceThrows \in BOOLEAN : NetworkPrompts(priceThrows)
    \/ \E b \in BOOLEAN : ConfirmVS(b)
    \/ \E o \in CreateOutcomes : Create(o)
    \/ \E b \in BOOLEAN : TryAgain(b)
    \/ \E b \in BOOLEAN : SaveToggle(b)
    \/ \E v \in TemplateNames : SaveName(v)
    \/ Cancel

Spec == Init /\ [][Next]_allVars

\* ================================================================== claims
\* init() resolved and the command's handler ran
InitResolved == diag # "init rejected"

\* the last create attempt of this run failed and the operator declined to retry
DeclinedAfterFailure == creates >= 1 /\ ~createSuccess /\ tryAgain = "no"

\* C1: once a create attempt has failed and the operator declined 'Try
\* again?', the submission outcome is failure and the wizard does not reach
\* the save-as-template question.
C1_DeclinedRetryIsFailure ==
    DeclinedAfterFailure =>
        /\ applyResult = "false"
        /\ pc \notin {"saveToggle", "saveName"}
        /\ "saveTemplate" \notin asked

\* C2: when the operator declines the confirmation, create is never invoked
\* in that run and applyVS resolves to false, in main and in useTemplate.
C2_DeclinedNeverCreates ==
    confirmVS = "no" =>
        /\ creates = 0
        /\ applyResult = "false"
        /\ pc = "done"

C2_Witness ==
    /\ cmd = "use"
    /\ confirmVS = "no"
    /\ pc = "done"
    /\ exitBy = "return"
    /\ vs.metadata.name # arg

\* C3: a failed submission is never retried automatically: every failure
\* (status or throw) leads to 'Try again?', every create after the first
\* follows an affirmed 'Try again?' after a failed attempt, none follows a
\* success, and the create calls number one more than the affirmed retries.
C3_CountsAgree ==
    /\ confirmVS # "yes" => creates = 0 /\ retries = 0
    /\ confirmVS = "yes" =>
          creates = (IF pc = "create" THEN retries ELSE retries + 1)
    /\ pc = "tryAgain" => creates >= 1 /\ ~createSuccess

C3_StepRule ==
    /\ (creates' = creates + 1 /\ ~createSuccess') =>
          pc' = "tryAgain" /\ "tryAgain" \in asked'
    /\ (creates' = creates + 1 /\ creates >= 1) =>
          ~createSuccess /\ tryAgain = "yes" /\ tryAgain' = "yes"
    /\ (creates >= 1 /\ createSuccess) => creates' # creates + 1

C3_NoAutomaticRetry == [](C3_CountsAgree) /\ [][C3_StepRule]_vars

C3_Witness ==
    /\ creates = 2
    /\ retries = 1
    /\ pc = "tryAgain"
    /\ diag = "createError"

\* C4: an attempt to save a template under a name the Template Store
\* already holds is rejected as taken, and every stored template, the one
\* under that name included, stays as it was.
C4_SaveStep == pc = "saveName" /\ exitBy' # "cancel" /\ runs' = runs

C4_StepRule ==
    C4_SaveStep =>
        /\ typed' \in DOMAIN stored =>
              /\ stored' = stored
              /\ diag' = "Template name already taken."
              /\ pc' = "saveName"
        /\ \A n \in DOMAIN stored : n \in DOMAIN stored' /\ stored'[n] = stored[n]

C4_NameTakenRejected == [][C4_StepRule]_vars

C4_Witness ==
    /\ pc = "saveName"
    /\ diag = "Template name already taken."
    /\ typed \in DOMAIN stored
    /\ vs # stored[typed]

\* C5: delete of a name the Template Store does not hold leaves the store
\* as it was and reports not-found, whatever the store holds.
C5_DeleteAbsentReported ==
    (cmd = "delete" /\ pc = "done" /\ InitResolved /\ arg \notin DOMAIN templates) =>
        /\ stored = templates
        /\ diag = "notFound"

\* C6: delete of a name the Template Store holds removes exactly that
\* entry from the persisted store; every other template is kept unchanged
\* (delete has run: init() resolved and dispatched it).
C6_DeleteRemovesExactlyOne ==
    (cmd = "delete" /\ pc = "done" /\ InitResolved /\ arg \in DOMAIN templates) =>
        /\ DOMAIN stored = (DOMAIN templates) \ {arg}
        /\ \A n \in DOMAIN stored : stored[n] = templates[n]

C6_Witness ==
    /\ cmd = "delete"
    /\ pc = "done"
    /\ InitResolved
    /\ arg \in DOMAIN templates
    /\ Cardinality(DOMAIN templates) = 2
    /\ Cardinality(DOMAIN stored) = 1

\* C7: template --from-save with a name the Template Store does not hold
\* is reported as not found and aborted: no identity prompt, no submission
\* loop, no create, also when the store holds other templates.
C7_UnknownTemplateReported ==
    (cmd = "use" /\ pc = "done" /\ InitResolved /\ arg # NoArg
     /\ arg \notin DOMAIN templates) =>
        /\ diag \in {"notFound", "noTemplates"}
        /\ exitBy = "return"
        /\ "identity" \notin asked
        /\ "confirmVS" \notin asked
        /\ creates = 0

\* C8: the descriptor instantiated from a template is a copy: once the
\* operator has overridden name and namespace only the identity of the
\* instantiated descriptor differs, and the template in the Template Store,
\* in memory and persisted, is as it was.
C8_TemplateIsCopied ==
    (cmd = "use" /\ "confirmVS" \in asked) =>
        /\ vs.spec = stored[vsRef].spec
        /\ templates = stored

\* C9: cancelling the username or the password entry after k users were
\* added ends the user loop with exactly those k users, in the order they
\* were added, and the wizard goes on to the network questions.
C9_StepRule ==
    /\ (pc = "username" /\ cancelled') =>
          users' = users /\ pc' = "password"
    /\ (pc = "password" /\ cancelled') =>
          users' = users /\ pc' = "network" /\ "network" \in asked'
    /\ (cancelled /\ runs' = runs) => users' = users /\ cancelled'
    /\ (pc = "network" /\ pc' = "confirm") => vs'.spec.users = users

C9_CancelKeepsAddedUsers == [][C9_StepRule]_vars

C9_Witness ==
    /\ cancelled
    /\ pc = "confirm"
    /\ Len(users) = 2
    /\ users[1].username = "u2"
    /\ users[2].username = "u1"
    /\ vs.spec.users = users

\* C10 as stated: a cancellation anywhere in the user-account sub-flow, the
\* 'Add a User?' toggle included, never ends the process.
C10_StepOriginal ==
    pc \in {"addUser", "username", "password"} => exitBy' # "cancel"

C10_CancelNeverAborts == [][C10_StepOriginal]_vars

\* C10 as amended: a cancellation during username or password entry ends
\* only the user loop and never the process, the wizard going on to the
\* network questions with the users collected so far; a cancellation at the
\* 'Add a User?' toggle ends the whole process before any manifest is built.
C10_StepAmended ==
    /\ pc \in {"username", "password"} =>
          /\ exitBy' = "none"
          /\ pc' \in {"username", "password", "addUser", "network"}
          /\ (cancelled' /\ pc = "password") => pc' = "network" /\ users' = users
    /\ (pc = "addUser" /\ pc' = "done") =>
          /\ exitBy' = "cancel"
          /\ vs' = Undefined
          /\ creates' = 0

C10_CancelAmended == [][C10_StepAmended]_vars

C10_Witness ==
    /\ pc = "done"
    /\ exitBy = "cancel"
    /\ "password" \in asked
    /\ "network" \notin asked
    /\ Len(users) >= 1

\* C11: cancelling a top-level question ends the process at once: from
\* then on in that run no manifest is built, create is not invoked and the
\* Template Store is not written; a cancellation before the confirmation
\* question leaves the run without manifest and without create call.
C11_Cancelled ==
    exitBy = "cancel" =>
        /\ pc = "done"
        /\ (cmd = "new" /\ "confirmVS" \notin asked) => vs = Undefined /\ creates = 0
        /\ cmd = "new" => stored = templates

C11_StepRule ==
    /\ (exitBy' = "cancel" /\ exitBy # "cancel") =>
          /\ pc \in {"base", "resource", "addUser", "network", "confirm",
                     "tryAgain", "saveToggle", "saveName", "select", "identity"}
          /\ vs' = vs
          /\ creates' = creates
          /\ stored' = stored
    /\ (exitBy = "cancel" /\ runs' = runs) =>
          vs' = vs /\ creates' = creates /\ stored' = stored

C11_CancelEndsProcess == [](C11_Cancelled) /\ [][C11_StepRule]_vars

C11_Witness ==
    /\ exitBy = "cancel"
    /\ pc = "done"
    /\ cmd = "new"
    /\ "network" \in asked
    /\ "confirmVS" \notin asked
    /\ Len(users) = 1
    /\ vs = Undefined

\* the usernames of a users list are pairwise different
UniqueUsernames(us) ==
    \A i, j \in 1..Len(us) : i # j => us[i].username # us[j].username

\* C12: after any sequence of add-user passes, rejected duplicates and a
\* cancelled pass included, no two users of the list, and of the list
\* handed to buildVS, have the same username.
C12_UsernamesUnique ==
    /\ UniqueUsernames(users)
    /\ (cmd = "new" /\ vs # Undefined) => UniqueUsernames(vs.spec.users)

C12_Witness ==
    /\ pc = "confirm"
    /\ cmd = "new"
    /\ diag = "User already added."
    /\ cancelled
    /\ Len(vs.spec.users) = 2

\* ======================================================================
\* The question flow of main(): basePrompts, resourcePrompts,
\* networkPrompts, buildVS and priceVS with every answer key.
\* An answer set is an object whose keys are the questions that produced a
\* defined value; a key that is absent reads as undefined.
\* ======================================================================

\* ------------------------------------------------------ flow: bounds
MaxCount == 2       \* largest number typed at a count prompt

\* ------------------------------------------- flow: program constants
MaxPorts == 10                \* ps.length > 10
MaxPortValue == 65536         \* pInt <= 65536
StorageRate == 97             \* 0.000097 $/GB/h, in millionths of a dollar
DefaultTtl == 10              \* storage.init({ttl: 10 * 60 * 1000}), in minutes

\* ------------------------------------------------ flow: input domains
NoMatch == "?"                \* text typed at an autocomplete that matches no choice
Regions == {"ORD1", "EWR1"}
OsTypes == {"linux", "windows"}
TypeTitles == {"Quadro_RTX_4000", "xeon", "epyc"}

\* A Kubernetes quantity string, written [num, unit]: "40Gi" is
\* [num |-> 40, unit |-> "Gi"], "abc" is [num |-> 0, unit |-> "abc"].
Quantity(n, u) == [num |-> n, unit |-> u]
BinaryUnits == {"Ki", "Mi", "Gi", "Ti"}
DecimalUnits == {"k", "M", "G", "T"}
TypedQuantities == { Quantity(1, "Gi"), Quantity(0, "abc") }

\* util.js k8sValidateQuantity
k8sValidateQuantity(q) == q.unit \in BinaryUnits \cup DecimalUnits \cup {""}

Has(obj, k) == k \in DOMAIN obj
Range(seq) == { seq[i] : i \in 1..Len(seq) }
\* the object {[k]: src[from]}, empty when src[from] is undefined
Prop(k, src, from) ==
    IF Has(src, from) THEN Spread(EmptyObject, k, src[from]) ELSE EmptyObject
\* {...a, ...b}
Assign(a, b) ==
    [n \in (DOMAIN a) \cup (DOMAIN b) |-> IF Has(b, n) THEN b[n] ELSE a[n]]

\* ---------------------------------------------- flow: what main() looked up
Image(name, namespace, size, storageClassName) ==
    [metadata |-> [name |-> name, namespace |-> namespace],
     spec |-> [storageClassName |-> storageClassName,
               resources |-> [requests |-> [storage |-> size]]]]
Preset(class, type) == [class |-> class, type |-> type]
Definition(alias, presets) == [spec |-> [alias |-> alias, presets |-> presets]]
\* a catalog entry; billing rates in millionths of a dollar per hour
Option(id, gpuRate, cpuRate, memRate) ==
    [id |-> id,
     gpu |-> [billingRate |-> gpuRate],
     cpu |-> [billingRate |-> cpuRate, memory |-> [billingRate |-> memRate]]]
Service(name) == [metadata |-> [name |-> name]]

\* what the cluster and the catalog hold: images of namespace vd-images (two
\* of them the same image built on different dates), definitions, options
Cluster ==
    [ubuntu |-> Image("ubuntu", "vd-images", Quantity(40, "Gi"), "ceph-ssd"),
     windows |-> Image("windows10", "vd-images", Quantity(80, "Gi"), "ceph-hdd"),
     older |-> Image("ubuntu-20210101-ord1", "vd-images", Quantity(40, "Gi"), "ceph-ssd"),
     newer |-> Image("ubuntu-20210301-ord1", "vd-images", Quantity(40, "Gi"), "ceph-ssd"),
     gpu |-> Definition("vs-gpu", << Preset("gpu", "Quadro_RTX_4000"), Preset("cpu", "xeon") >>),
     cpuOnly |-> Definition("vs-cpu", << Preset("cpu", "epyc") >>),
     rtx |-> Option("Quadro_RTX_4000", 350000, 10000, 5000),
     xeon |-> Option("xeon", 0, 12000, 5000)]

\* images: [] when the list failed or is empty (line 62);
\* hasDefinitions: !!definitions (null when the list failed, line 69)
\* services: not listed before the resource questions are answered (line
\* 220); cluster.services is what client.service.list will give
Lookups(images, hasDefinitions, definitions, gpuOptions, cpuOptions, services) ==
    [images |-> images, hasDefinitions |-> hasDefinitions,
     definitions |-> definitions,
     options |-> [gpuOptions |-> gpuOptions, cpuOptions |-> cpuOptions],
     services |-> << >>,
     cluster |-> [services |-> services]]

\* full: everything listed; bare: image and definition lists failed, the
\* catalog has no GPU options; typed: image and definition lists failed, the
\* catalog has both kinds; noDefinitions: the definition list is empty
Env ==
    [full |-> Lookups(<< Cluster.ubuntu, Cluster.windows >>, TRUE,
                      << Cluster.gpu, Cluster.cpuOnly >>,
                      << Cluster.rtx >>, << Cluster.xeon >>, << Service("fip-1") >>),
     bare |-> Lookups(<< >>, FALSE, << >>, << >>, << Cluster.xeon >>, << >>),
     typed |-> Lookups(<< >>, FALSE, << >>, << Cluster.rtx >>, << Cluster.xeon >>, << >>),
     noDefinitions |-> Lookups(<< Cluster.ubuntu >>, TRUE, << >>,
                               << Cluster.rtx >>, << Cluster.xeon >>, << >>)]
Environments == { Env.full, Env.bare, Env.typed, Env.noDefinitions }

\* prompts autocomplete: the choice whose title was typed or selected, as a
\* one-element list; the empty list (value undefined) when nothing matches
Autocomplete(choices, v) == IF v \in Range(choices) THEN << v >> ELSE << >>
\* {...values, [k]: list[0]} ; values when list[0] is undefined
Answer(values, k, list) == IF list # << >> THEN Spread(values, k, list[1]) ELSE values

\* the characters of the texts that are typed at the text questions
Spelling(v) ==
    CASE v = "" -> << >>
      [] v = "?" -> << "?" >>
      [] v = "-" -> << "-" >>
      [] v = "_" -> << "_" >>
      [] v = "ABC" -> << "A", "B", "C" >>
      [] v = "a" -> << "a" >>
      [] v = "b" -> << "b" >>
      [] v = "default" -> << "d", "e", "f", "a", "u", "l", "t" >>
      [] v = "dev" -> << "d", "e", "v" >>
      [] v = "rootfs" -> << "r", "o", "o", "t", "f", "s" >>
      [] v = "ceph-ssd" -> << "c", "e", "p", "h", "-", "s", "s", "d" >>
      [] v = "vs-gpu" -> << "v", "s", "-", "g", "p", "u" >>
      [] v = "vs-cpu" -> << "v", "s", "-", "c", "p", "u" >>
      [] v = "constructor" -> << "c", "o", "n", "s", "t", "r", "u", "c", "t", "o", "r" >>
      [] v = "toString" -> << "t", "o", "S", "t", "r", "i", "n", "g" >>
      [] v = "zzz" -> << "z", "z", "z" >>
      [] v = "__defineGetter__" ->
            << "_", "_", "d", "e", "f", "i", "n", "e", "G", "e", "t", "t", "e", "r", "_", "_" >>
      [] v = "__defineSetter__" ->
            << "_", "_", "d", "e", "f", "i", "n", "e", "S", "e", "t", "t", "e", "r", "_", "_" >>
      [] v = "hasOwnProperty" ->
            << "h", "a", "s", "O", "w", "n", "P", "r", "o", "p", "e", "r", "t", "y" >>
      [] v = "__lookupGetter__" ->
            << "_", "_", "l", "o", "o", "k", "u", "p", "G", "e", "t", "t", "e", "r", "_", "_" >>
      [] v = "__lookupSetter__" ->
            << "_", "_", "l", "o", "o", "k", "u", "p", "S", "e", "t", "t", "e", "r", "_", "_" >>
      [] v = "isPrototypeOf" ->
            << "i", "s", "P", "r", "o", "t", "o", "t", "y", "p", "e", "O", "f" >>
      [] v = "propertyIsEnumerable" ->
            << "p", "r", "o", "p", "e", "r", "t", "y", "I", "s", "E", "n", "u", "m", "e", "r", "a", "b", "l", "e" >>
      [] v = "valueOf" ->
            << "v", "a", "l", "u", "e", "O", "f" >>
      [] v = "__proto__" ->
            << "_", "_", "p", "r", "o", "t", "o", "_", "_" >>
      [] v = "toLocaleString" ->
            << "t", "o", "L", "o", "c", "a", "l", "e", "S", "t", "r", "i", "n", "g" >>
      [] v = "windows10" -> << "w", "i", "n", "d", "o", "w", "s", "1", "0" >>
      [] v = "ubuntu-20210101-ord1" ->
            << "u", "b", "u", "n", "t", "u", "-", "2", "0", "2", "1", "0", "1", "0", "1",
               "-", "o", "r", "d", "1" >>
      [] v = "ubuntu-20210301-ord1" ->
            << "u", "b", "u", "n", "t", "u", "-", "2", "0", "2", "1", "0", "3", "0", "1",
               "-", "o", "r", "d", "1" >>
\* validate of the text questions: /[a-z0-9](...)?(...)*/.test(v); the
\* pattern is not anchored and only its first character class is mandatory,
\* so it accepts exactly the texts with a character of [a-z0-9]
nameTest(v) ==
    LET lowerAlnum ==
            { "a", "b", "c", "d", "e", "f", "g", "h", "i", "j", "k", "l", "m",
              "n", "o", "p", "q", "r", "s", "t", "u", "v", "w", "x", "y", "z",
              "0", "1", "2", "3", "4", "5", "6", "7", "8", "9" }
    IN  \E i \in 1..Len(Spelling(v)) : Spelling(v)[i] \in lowerAlnum

\* ------------------------------------------------------- basePrompts
\* images.length > 0
imagesListed(e) == Len(e.images) > 0
\* type of imageNamespace, imageSize, imageStorageClassName
typedImageActive(e) == ~imagesListed(e)
\* name of the image question
imageQuestionName(e) == IF imagesListed(e) THEN "image" ELSE "imageName"
\* format of the image question
imageFormat(e, v) ==
    IF imagesListed(e)
    THEN SelectSeq(e.images, LAMBDA i : i.metadata.name = v)
    ELSE << v >>
imageTitles(e) == [i \in 1..Len(e.images) |-> e.images[i].metadata.name]

BaseInputs ==
    [name : {"a", "ABC"}, namespace : {"default"}, region : Regions,
     image : {"ubuntu", "windows10", NoMatch}, imageName : {"rootfs"},
     imageNamespace : {"default"}, imageSize : {Quantity(40, "Gi"), Quantity(0, "abc")},
     imageStorageClassName : {"ceph-ssd"}, os : OsTypes]

\* what the operator can submit: a listed image is picked from the list (or
\* nothing matches), a typed size passes k8sValidateQuantity
baseAccepted(e, in) ==
    /\ nameTest(in.name)
    /\ nameTest(in.namespace)
    /\ imagesListed(e) => in.image \in Range(imageTitles(e)) \cup {NoMatch}
    /\ ~imagesListed(e) =>
          /\ nameTest(in.imageName)
          /\ nameTest(in.imageNamespace)
          /\ nameTest(in.imageStorageClassName)
    /\ typedImageActive(e) => k8sValidateQuantity(in.imageSize)

\* prompts(basePrompts): the answer set for the operator's input
basePrompts(e, in) ==
    LET v1 == Spread(EmptyObject, "name", in.name)
        v2 == Spread(v1, "namespace", in.namespace)
        v3 == Spread(v2, "region", in.region)
        v4 == Answer(v3, imageQuestionName(e),
                     IF imagesListed(e)
                     THEN imageFormat(e, in.image)
                     ELSE imageFormat(e, in.imageName))
        v5 == IF typedImageActive(e)
              THEN Spread(v4, "imageNamespace", in.imageNamespace) ELSE v4
        v6 == IF typedImageActive(e)
              THEN Spread(v5, "imageSize", in.imageSize) ELSE v5
        v7 == IF typedImageActive(e)
              THEN Spread(v6, "imageStorageClassName", in.imageStorageClassName) ELSE v6
    IN  Spread(v7, "os", in.os)

\* ----------------------------------------------------- resourcePrompts
\* choices and format of the definition question
definitionTitles(e) == [i \in 1..Len(e.definitions) |-> e.definitions[i].spec.alias]
definitionFormat(e, v) ==
    IF e.hasDefinitions
    THEN SelectSeq(e.definitions, LAMBDA d : d.spec.alias = v)
    ELSE << [spec |-> [alias |-> v]] >>
definitionValue(e, v) ==
    IF e.hasDefinitions
    THEN (IF Autocomplete(definitionTitles(e), v) = << >> THEN << >> ELSE definitionFormat(e, v))
    ELSE definitionFormat(e, v)

\* type of the gpu question: values.systemType === true
gpuActive_always(values) == TRUE
gpuActive(values) == values.systemType = TRUE
\* type of the gpuCount question: !!values.gpu
gpuCountActive(values) == Has(values, "gpu")
\* type of the cpu question: values.systemType ? null : 'autocomplete'
cpuActive(values) == ~values.systemType
\* type of the swap question
swapActive(values) == values.addSwap

\* the titles of p => p.class === class of a definition, or the catalog ids
presetTitles(presets, class) ==
    LET ps == SelectSeq(presets, LAMBDA p : p.class = class)
    IN  [i \in 1..Len(ps) |-> ps[i].type]
optionIds(opts) == [i \in 1..Len(opts) |-> opts[i].id]
\* choices of the gpu and cpu questions read values.definition.spec.presets
\* when definitions were listed: a TypeError when no definition was matched
choicesThrow(e, values) == e.hasDefinitions /\ ~Has(values, "definition")
gpuChoices(e, values) ==
    IF e.hasDefinitions
    THEN presetTitles(values.definition.spec.presets, "gpu")
    ELSE optionIds(e.options.gpuOptions)
cpuChoices(e, values) ==
    IF e.hasDefinitions
    THEN presetTitles(values.definition.spec.presets, "cpu")
    ELSE optionIds(e.options.cpuOptions)

ResourceInputs ==
    [definition : {"vs-gpu", "vs-cpu", NoMatch}, systemType : BOOLEAN,
     gpu : TypeTitles \cup {NoMatch}, gpuCount : 1..MaxCount,
     cpu : TypeTitles \cup {NoMatch}, cpuCount : 1..MaxCount,
     memory : TypedQuantities, addSwap : BOOLEAN, swap : TypedQuantities]

\* a typed definition passes nameTest, the number prompts have min: 1, the
\* quantity prompts validate
resourceAccepted(e, in) ==
    /\ ~e.hasDefinitions => nameTest(in.definition)
    /\ in.gpuCount >= 1
    /\ in.cpuCount >= 1
    /\ k8sValidateQuantity(in.memory)
    /\ in.addSwap => k8sValidateQuantity(in.swap)

\* the first three questions: definition, systemType
resourceHead(e, in) ==
    Spread(Answer(EmptyObject, "definition", definitionValue(e, in.definition)),
           "systemType", in.systemType)

\* prompts(resourcePrompts): the answer set for the operator's input
resourcePrompts(e, in) ==
    LET v2 == resourceHead(e, in)
        v3 == IF gpuActive(v2)
              THEN Answer(v2, "gpu", Autocomplete(gpuChoices(e, v2), in.gpu)) ELSE v2
        v4 == IF gpuCountActive(v3) THEN Spread(v3, "gpuCount", in.gpuCount) ELSE v3
        v5 == IF cpuActive(v4)
              THEN Answer(v4, "cpu", Autocomplete(cpuChoices(e, v4), in.cpu)) ELSE v4
        v6 == Spread(v5, "cpuCount", in.cpuCount)
        v7 == Spread(v6, "memory", in.memory)
        v8 == Spread(v7, "addSwap", in.addSwap)
    IN  IF swapActive(v8) THEN Spread(v8, "swap", in.swap) ELSE v8

\* ------------------------------------------------------ networkPrompts
\* A typed port list is the list of its comma-separated pieces, each piece
\* the list of its characters: "80, x" is << <<"8","0">>, <<" ","x">> >>.
HexDigits ==
    [lower |-> << "0", "1", "2", "3", "4", "5", "6", "7", "8", "9",
                  "a", "b", "c", "d", "e", "f" >>,
     upper |-> << "0", "1", "2", "3", "4", "5", "6", "7", "8", "9",
                  "A", "B", "C", "D", "E", "F" >>]
\* the value of c as a digit of the radix, -1 when it is none
DigitOf(c, radix) ==
    LET at == { i \in 1..radix : HexDigits.lower[i] = c \/ HexDigits.upper[i] = c }
    IN  IF at = {} THEN 0 - 1 ELSE (CHOOSE i \in at : TRUE) - 1
IsDigit(c) == DigitOf(c, 10) >= 0
NaN == [nan |-> TRUE, value |-> 0]
Number(n) == [nan |-> FALSE, value |-> n]
\* white space as parseInt and trim skip it: the WhiteSpace and
\* LineTerminator code points; a code point without a TLA+ spelling is
\* written "U+hhhh"
WhiteSpace ==
    {"\t", "\n", "U+000B", "U+000C", "\r", " ", "U+00A0", "U+1680",
     "U+2000", "U+2001", "U+2002", "U+2003", "U+2004", "U+2005", "U+2006",
     "U+2007", "U+2008", "U+2009", "U+200A", "U+2028", "U+2029", "U+202F",
     "U+205F", "U+3000", "U+FEFF"}

RECURSIVE SkipSpaces(_)
SkipSpaces(cs) ==
    IF cs # << >> /\ Head(cs) \in WhiteSpace THEN SkipSpaces(Tail(cs)) ELSE cs
RECURSIVE DropTrailingSpaces(_)
DropTrailingSpaces(cs) ==
    IF cs # << >> /\ cs[Len(cs)] \in WhiteSpace
    THEN DropTrailingSpaces(SubSeq(cs, 1, Len(cs) - 1)) ELSE cs
\* String.prototype.trim
trim(cs) == DropTrailingSpaces(SkipSpaces(cs))

\* the value of the longest prefix of digits of the radix, read left to right
RECURSIVE DigitPrefix(_, _, _, _)
DigitPrefix(cs, radix, acc, seen) ==
    IF cs # << >> /\ DigitOf(Head(cs), radix) >= 0
    THEN DigitPrefix(Tail(cs), radix, acc * radix + DigitOf(Head(cs), radix), TRUE)
    ELSE IF seen THEN Number(acc) ELSE NaN
\* parseInt(string) without a radix: leading white space and a sign are
\* skipped; after a 0x or 0X prefix hexadecimal digits are read, else decimal
\* ones; anything after the digits is ignored; NaN when there is no digit
parseInt(cs) ==
    LET t == SkipSpaces(cs)
        negative == t # << >> /\ Head(t) = "-"
        signed == t # << >> /\ Head(t) \in {"-", "+"}
        body == IF signed THEN Tail(t) ELSE t
        hex == Len(body) >= 2 /\ body[1] = "0" /\ body[2] \in {"x", "X"}
        r == IF hex THEN DigitPrefix(Tail(Tail(body)), 16, 0, FALSE)
             ELSE DigitPrefix(body, 10, 0, FALSE)
    IN  IF r.nan THEN NaN ELSE Number(IF negative THEN 0 - r.value ELSE r.value)
\* parseInt that reads a number only when the whole piece is digits
parseInt_strict(cs) ==
    IF cs # << >> /\ \A i \in 1..Len(cs) : IsDigit(cs[i])
    THEN DigitPrefix(cs, 10, 0, FALSE) ELSE NaN

\* pInt !== NaN && pInt > 0 && pInt <= 65536 ; pInt !== NaN is always true,
\* NaN fails the comparisons
portInRange(pInt) == ~pInt.nan /\ pInt.value > 0 /\ pInt.value <= MaxPortValue
\* v.filter(v => v !== '')
nonEmptyPieces(pieces) == SelectSeq(pieces, LAMBDA p : p # << >>)
\* validate of tcpPorts and udpPorts, on the typed text
portsValidate(pieces) ==
    LET ps == nonEmptyPieces(pieces)
    IN  IF Len(ps) > MaxPorts THEN FALSE
        ELSE \A i \in 1..Len(ps) : portInRange(parseInt(ps[i]))
\* the list prompt splits and trims, then format of tcpPorts and udpPorts
portsFormat(pieces) ==
    LET trimmed == [i \in 1..Len(pieces) |-> trim(pieces[i])]
        ps == nonEmptyPieces(trimmed)
    IN  [i \in 1..Len(ps) |-> parseInt(ps[i]).value]

Typed ==
    [p80 |-> << "8", "0" >>,
     p443 |-> << "4", "4", "3" >>,
     zero |-> << "0" >>,
     max |-> << "6", "5", "5", "3", "6" >>,
     tooBig |-> << "6", "5", "5", "3", "7" >>,
     negative |-> << "-", "1" >>,
     word |-> << "a", "b" >>,
     suffixed |-> << "8", "0", "a" >>,
     fraction |-> << "1", ".", "5" >>,
     blank |-> << " " >>,
     spaced |-> << " ", "8", "0" >>,
     hex |-> << "0", "x", "1", "0" >>,
     nbsp |-> << "U+00A0", "8", "0" >>,
     formFeed |-> << "U+000C", "4", "4", "3", "U+3000" >>,
     empty |-> << >>]
\* the texts typed at a port prompt; "" splits into one empty piece
TypedPortLists ==
    { << Typed.empty >>, << Typed.p80 >>, << Typed.p80, Typed.p443 >>, << Typed.zero >>,
      << Typed.max >>, << Typed.tooBig >>, << Typed.negative >>, << Typed.word >>,
      << Typed.suffixed >>, << Typed.fraction >>, << Typed.p80, Typed.blank >>,
      << Typed.spaced, Typed.empty, Typed.p443 >>, << Typed.hex >>, << Typed.nbsp, Typed.formFeed >>,
      [i \in 1..MaxPorts |-> Typed.p80], [i \in 1..(MaxPorts + 1) |-> Typed.p80] }

\* type of tcpPorts and udpPorts
portsActive(values) == ~values.directAttach
\* type of the public question
publicActive_always(values) == TRUE
publicActive(values) ==
    \/ values.directAttach
    \/ Len(values.tcpPorts) > 0
    \/ Len(values.udpPorts) > 0

TypedUdpLists ==
    { << Typed.empty >>, << Typed.p443 >>, << Typed.word >>, 
      [i \in 1..(MaxPorts + 1) |-> Typed.p443] }

NetworkInputs(e) ==
    [directAttach : BOOLEAN, tcpPorts : TypedPortLists, udpPorts : TypedUdpLists,
     floatingIPs : { << >> } \cup { << i >> : i \in 1..Len(e.services) },
     public : BOOLEAN]

networkAccepted(in) ==
    ~in.directAttach => portsValidate(in.tcpPorts) /\ portsValidate(in.udpPorts)

\* the texts that were submitted: none at a question that was not asked
typedTexts(in) ==
    IF in.directAttach THEN EmptyObject
    ELSE [tcpPorts |-> in.tcpPorts, udpPorts |-> in.udpPorts]

\* prompts(networkPrompts): the answer set for the operator's input
networkPrompts(e, in) ==
    LET v1 == Spread(EmptyObject, "directAttach", in.directAttach)
        v2 == IF portsActive(v1) THEN Spread(v1, "tcpPorts", portsFormat(in.tcpPorts)) ELSE v1
        v3 == IF portsActive(v2) THEN Spread(v2, "udpPorts", portsFormat(in.udpPorts)) ELSE v2
        v4 == Spread(v3, "floatingIPs",
                     [i \in 1..Len(in.floatingIPs) |-> e.services[in.floatingIPs[i]]])
    IN  IF publicActive(v4) THEN Spread(v4, "public", in.public) ELSE v4

\* ------------------------------------------------------------- buildVS
\* spec.storage.root, taken from the selected image when !!baseResponse.image
\* and from the typed answers otherwise
rootStorage_typedOnly(base) ==
    Assign(Assign(Prop("size", base, "imageSize"),
                  Prop("storageClassName", base, "imageStorageClassName")),
           [source |-> [pvc |-> Assign(Prop("namespace", base, "imageNamespace"),
                                       Prop("name", base, "imageName"))]])
rootStorage(base) ==
    IF Has(base, "image")
    THEN [size |-> base.image.spec.resources.requests.storage,
          storageClassName |-> base.image.spec.storageClassName,
          source |-> [pvc |-> [namespace |-> base.image.metadata.namespace,
                               name |-> base.image.metadata.name]]]
    ELSE Assign(Assign(Prop("size", base, "imageSize"),
                       Prop("storageClassName", base, "imageStorageClassName")),
                [source |-> [pvc |-> Assign(Prop("namespace", base, "imageNamespace"),
                                            Prop("name", base, "imageName"))]])

\* spec.resources.gpu and spec.resources.cpu: type and count as answered
gpuResources(res) == Assign(Prop("type", res, "gpu"), Prop("count", res, "gpuCount"))
cpuResources(res) == Assign(Prop("count", res, "cpuCount"), Prop("type", res, "cpu"))

\* networkResponse.public || false
publicOrFalse(net) == IF Has(net, "public") THEN net.public ELSE FALSE

\* buildVS with every field of virtualServerManifest.spec ; buildVS above is
\* its restriction to metadata and spec.users
virtualServerManifest(base, res, us, net) ==
    [metadata |-> newVirtualServerManifest(base.name, base.namespace).metadata,
     spec |->
       [region |-> base.region,
        os |-> [type |-> base.os],
        resources |-> [definition |-> res.definition.spec.alias,
                       gpu |-> gpuResources(res),
                       cpu |-> cpuResources(res),
                       memory |-> res.memory],
        storage |-> Assign([root |-> rootStorage(base)], Prop("swap", res, "swap")),
        users |-> us,
        network |-> [public |-> publicOrFalse(net),
                     tcp |-> Prop("ports", net, "tcpPorts"),
                     udp |-> Prop("ports", net, "udpPorts"),
                     floatingIPs |-> [i \in 1..Len(net.floatingIPs) |->
                                        [serviceName |-> net.floatingIPs[i].metadata.name]]],
        initializeRunning |-> TRUE]]

\* ------------------------------------------------------------- priceVS
\* xbytes: the size of a quantity in units of 10^6 bytes, rounded
UnitMB(u) ==
    CASE u = "Ti" -> 1099512
      [] u = "Gi" -> 1074
      [] u = "Mi" -> 1
      [] u = "T" -> 1000000
      [] u = "G" -> 1000
      [] u = "M" -> 1
      [] OTHER -> 0
sizeMB(q) == q.num * UnitMB(q.unit)

\* the catalog entry of the compute selection: the GPU type if set, else the
\* CPU type; an undefined type matches no id
matchingOptions(m, options) ==
    IF Has(m.spec.resources.gpu, "type")
    THEN SelectSeq(options.gpuOptions, LAMBDA o : o.id = m.spec.resources.gpu.type)
    ELSE SelectSeq(options.cpuOptions,
                   LAMBDA o : Has(m.spec.resources.cpu, "type")
                              /\ o.id = m.spec.resources.cpu.type)

Price(kind, cents) == [kind |-> kind, cents |-> cents]
\* priceVS: null without a catalog entry; a TypeError when the root size is
\* undefined (.slice of undefined); else the hourly price, in cents (toFixed(2))
priceVS(m, options) ==
    LET found == matchingOptions(m, options)
        option == found[1]
        r == m.spec.resources
        gpuRate == IF Has(r.gpu, "type") THEN option.gpu.billingRate * r.gpu.count ELSE 0
        cpuRate == IF Has(r.cpu, "type") THEN option.cpu.billingRate * r.cpu.count ELSE 0
        memRate == (option.cpu.memory.billingRate * sizeMB(r.memory)) \div 1000
        storeRate == (StorageRate * sizeMB(m.spec.storage.root.size)) \div 1000
                     + (IF Has(m.spec.storage, "swap")
                        THEN (StorageRate * sizeMB(m.spec.storage.swap)) \div 1000
                        ELSE 0)
    IN  IF found = << >> THEN Price("null", 0)
        ELSE IF ~Has(m.spec.storage.root, "size") THEN Price("TypeError", 0)
        ELSE Price("value", (gpuRate + cpuRate + memRate + storeRate + 5000) \div 10000)

\* --------------------------------------------------- flow: the steps
\* main() has read its lookups (lines 44-78); when client.pvc.list rejects,
\* main() rejects before the first question
FlowStart(e, pvcsOk) ==
    /\ stage = "off"
    /\ env' = e
    /\ stage' = (IF pvcsOk THEN "base" ELSE "crashed")
    /\ UNCHANGED << answersBase, answersResource, answersNetwork, typedPorts, manifest, price >>
    /\ UNCHANGED << vars, cacheVars >>

\* const baseResponse = await prompts(basePrompts, {onCancel})
FlowBase ==
    /\ stage = "base"
    /\ \E in \in BaseInputs :
        /\ baseAccepted(env, in)
        /\ answersBase' = basePrompts(env, in)
    /\ stage' = "resource"
    /\ UNCHANGED << env, answersResource, answersNetwork, typedPorts, manifest, price >>
    /\ UNCHANGED << vars, cacheVars >>

\* const resouceResponse = await prompts(resourcePrompts, {onCancel}), then
\* const services = await client.service.list(...), which has no catch
FlowResource(servicesOk) ==
    /\ stage = "resource"
    /\ \E in \in ResourceInputs :
        /\ resourceAccepted(env, in)
        /\ IF choicesThrow(env, resourceHead(env, in))
           THEN /\ stage' = "crashed"
                /\ UNCHANGED << answersResource, env >>
           ELSE /\ answersResource' = resourcePrompts(env, in)
                /\ IF servicesOk
                   THEN /\ env' = [env EXCEPT !.services = env.cluster.services]
                        /\ stage' = "network"
                   ELSE /\ stage' = "crashed"
                        /\ UNCHANGED env
    /\ UNCHANGED << answersBase, answersNetwork, typedPorts, manifest, price >>
    /\ UNCHANGED << vars, cacheVars >>

\* networkResponse, then buildVS and the priceVS call of applyVS, up to the
\* confirmation question
FlowNetwork ==
    /\ stage = "network"
    /\ \E in \in NetworkInputs(env) :
        /\ networkAccepted(in)
        /\ answersNetwork' = networkPrompts(env, in)
        /\ typedPorts' = typedTexts(in)
    /\ manifest' = virtualServerManifest(answersBase, answersResource, users, answersNetwork')
    /\ price' = priceVS(manifest', env.options)
    /\ stage' = IF price'.kind = "TypeError" THEN "crashed" ELSE "confirm"
    /\ UNCHANGED << env, answersBase, answersResource >>
    /\ UNCHANGED << vars, cacheVars >>

FlowInit == Init /\ stored = EmptyObject

FlowNext ==
    \/ \E e \in Environments, pvcsOk \in BOOLEAN : FlowStart(e, pvcsOk)
    \/ FlowBase
    \/ \E servicesOk \in BOOLEAN : FlowResource(servicesOk)
    \/ FlowNetwork

FlowSpec == FlowInit /\ [][FlowNext]_allVars

\* ------------------------------------------------- claims on the flow
\* the flow reached the confirmation question: every answer set is complete
\* and the manifest is built
FlowCompleted == stage = "confirm"
\* the answered port lists, [] for a list that was not asked
AnsweredPorts(k) == IF Has(answersNetwork, k) THEN answersNetwork[k] ELSE << >>
Exposed ==
    \/ answersNetwork.directAttach
    \/ Len(AnsweredPorts("tcpPorts")) > 0
    \/ Len(AnsweredPorts("udpPorts")) > 0

\* C13: a completed flow's answer sets hold no value for a question that was
\* inactive when it was reached: gpu only with systemType true, gpuCount only
\* with a gpu, cpu only with systemType false, swap only with addSwap, the
\* port lists only without directAttach, public only with directAttach or a
\* non-empty port list, and the typed image answers only when no image list
\* is available, in which case image is absent and imageName present.
C13_InactiveUnanswered ==
    FlowCompleted =>
        /\ Has(answersResource, "gpu") => answersResource.systemType = TRUE
        /\ Has(answersResource, "gpuCount") => Has(answersResource, "gpu")
        /\ Has(answersResource, "cpu") => answersResource.systemType = FALSE
        /\ Has(answersResource, "swap") => answersResource.addSwap = TRUE
        /\ Has(answersNetwork, "tcpPorts") => answersNetwork.directAttach = FALSE
        /\ Has(answersNetwork, "udpPorts") => answersNetwork.directAttach = FALSE
        /\ Has(answersNetwork, "public") => Exposed
        /\ \A k \in {"imageNamespace", "imageSize", "imageStorageClassName"} :
              Has(answersBase, k) => ~imagesListed(env)
        /\ ~imagesListed(env) =>
              ~Has(answersBase, "image") /\ Has(answersBase, "imageName")

\* a completed flow on the CPU path without swap, direct attach, typed image
C13_Witness ==
    /\ FlowCompleted
    /\ answersResource.systemType = FALSE
    /\ Has(answersResource, "cpu")
    /\ ~Has(answersResource, "gpu")
    /\ ~Has(answersResource, "gpuCount")
    /\ answersResource.addSwap = FALSE
    /\ ~Has(answersResource, "swap")
    /\ answersNetwork.directAttach
    /\ ~Has(answersNetwork, "tcpPorts")
    /\ Has(answersNetwork, "public")
    /\ Has(answersBase, "imageSize")
    /\ ~Has(answersBase, "image")

\* C14: every manifest built from a completed flow has exactly one of the
\* CPU type and the GPU type set: the GPU type iff 'Add a GPU?' was answered
\* true, the CPU type iff it was answered false.
C14_ExactlyOneType ==
    manifest # Undefined =>
        /\ Has(manifest.spec.resources.gpu, "type") <=> (answersResource.systemType = TRUE)
        /\ Has(manifest.spec.resources.cpu, "type") <=> (answersResource.systemType = FALSE)

\* C15: when the GPU system type is chosen and gpuCount is unset, the built
\* manifest's GPU count is 1.
C15_GpuCountDefaultsToOne ==
    (/\ manifest # Undefined
     /\ answersResource.systemType = TRUE
     /\ ~Has(answersResource, "gpuCount"))
    => /\ Has(manifest.spec.resources.gpu, "count")
       /\ manifest.spec.resources.gpu.count = 1

\* C18: with a selected image the built root storage has the image's own
\* namespace, name, size and storage class; with a typed PVC name it has the
\* typed imageNamespace, imageName, imageSize and imageStorageClassName.
C18_RootStorageSource ==
    manifest # Undefined =>
        LET root == manifest.spec.storage.root
            image == answersBase.image
        IN  /\ Has(answersBase, "image") =>
                root = [size |-> image.spec.resources.requests.storage,
                        storageClassName |-> image.spec.storageClassName,
                        source |-> [pvc |-> [namespace |-> image.metadata.namespace,
                                             name |-> image.metadata.name]]]
            /\ Has(answersBase, "imageName") =>
                root = [size |-> answersBase.imageSize,
                        storageClassName |-> answersBase.imageStorageClassName,
                        source |-> [pvc |-> [namespace |-> answersBase.imageNamespace,
                                             name |-> answersBase.imageName]]]

\* a manifest built from the selected image windows10
C18_Witness ==
    /\ FlowCompleted
    /\ Has(answersBase, "image")
    /\ answersBase.image = Cluster.windows
    /\ manifest.spec.storage.root.source.pvc.name = "windows10"
    /\ manifest.spec.storage.root.size = Quantity(80, "Gi")

\* C20: a built manifest has network.public true only if the operator chose
\* direct attach or listed a TCP or UDP port; otherwise the public question
\* is not asked and network.public is false.
C20_PublicOnlyWhenExposed ==
    manifest # Undefined =>
        /\ manifest.spec.network.public = TRUE => Exposed
        /\ ~Exposed => /\ ~Has(answersNetwork, "public")
                       /\ manifest.spec.network.public = FALSE

\* no direct attach and two empty port lists: public was not asked
C20_Witness ==
    /\ FlowCompleted
    /\ answersNetwork.directAttach = FALSE
    /\ answersNetwork.tcpPorts = << >>
    /\ answersNetwork.udpPorts = << >>
    /\ ~Has(answersNetwork, "public")
    /\ manifest.spec.network.public = FALSE

\* a typed piece that is an integer: digits only, after an optional sign
IsIntegerText(cs) ==
    LET t == trim(cs)
        d == IF t # << >> /\ Head(t) \in {"-", "+"} THEN Tail(t) ELSE t
    IN  d # << >> /\ \A i \in 1..Len(d) : IsDigit(d[i])
\* an accepted text has at most 10 entries, each an integer in (0, 65536]
AcceptedTextValid(pieces) ==
    LET ps == nonEmptyPieces(pieces)
    IN  /\ Len(ps) <= MaxPorts
        /\ \A i \in 1..Len(ps) :
              /\ IsIntegerText(ps[i])
              /\ parseInt(ps[i]).value > 0
              /\ parseInt(ps[i]).value <= MaxPortValue
\* a built port list has at most 10 entries, each in (0, 65536]
BuiltPortsValid(ports) ==
    /\ Len(ports) <= MaxPorts
    /\ \A i \in 1..Len(ports) : ports[i] > 0 /\ ports[i] <= MaxPortValue

\* C16: port-list validation rejects every list with more than 10 entries
\* and every list with an entry that is not an integer in (0, 65536]: every
\* text the tcpPorts or udpPorts question accepted is such a list, and each
\* port list of the built manifest has at most 10 entries in (0, 65536].
C16_PortValidation ==
    (manifest # Undefined /\ ~answersNetwork.directAttach) =>
        \A k \in {"tcpPorts", "udpPorts"} :
            /\ AcceptedTextValid(typedPorts[k])
            /\ BuiltPortsValid(answersNetwork[k])

\* the consequence alone: the built port lists are within the limits
C16_BuiltPortsWithinLimits ==
    manifest # Undefined =>
        /\ Has(manifest.spec.network.tcp, "ports") =>
              BuiltPortsValid(manifest.spec.network.tcp.ports)
        /\ Has(manifest.spec.network.udp, "ports") =>
              BuiltPortsValid(manifest.spec.network.udp.ports)

\* C17: the price is absent whenever the manifest's compute selection (its
\* GPU type if set, else its CPU type) has no catalog entry, and the wizard
\* then still reaches the confirmation question; whenever an entry matches,
\* priceVS returns a value (it does not fail), the one that manifest and
\* catalog determine.
C17_PriceAbsentOrValue ==
    manifest # Undefined =>
        LET found == matchingOptions(manifest, env.options)
        IN  /\ found = << >> => price.kind = "null" /\ stage = "confirm"
            /\ found # << >> =>
                  /\ price.kind = "value"
                  /\ price = priceVS(manifest, env.options)
                  /\ stage = "confirm"

\* the first half alone: no catalog entry, no estimate, confirmation reached
C17_AbsentWithoutEntry ==
    manifest # Undefined =>
        (matchingOptions(manifest, env.options) = << >>
            => price.kind = "null" /\ stage = "confirm")

\* ======================================================================
\* The node-persist store: init() reads '_templates' and 'options', main()
\* reads 'images' and 'definitions', each fetched remotely when the read
\* gives a falsy value; templates are written with {ttl: false}.
\* ======================================================================

\* ----------------------------------------------------- store: bounds
MaxClock == 20      \* minutes a behaviour lasts
TickMinutes == 5    \* minutes that pass in one step of the clock

\* --------------------------------------------------- store: values
JsNull == [null |-> TRUE]
\* a stored or loaded value that is not null
Value(data) == [null |-> FALSE, data |-> data]
\* !v
Falsy(v) == v = Undefined \/ v = JsNull
\* what client.image.list may give as o.body.items
ImageLists ==
    { << Cluster.older, Cluster.newer, Cluster.windows >>,
      << Cluster.windows, Cluster.newer, Cluster.older >>,
      << Cluster.windows >> }
\* the descriptors buildVS may hand to the template save
BuiltDescriptors ==
    { buildVS([name |-> "a", namespace |-> "default"], << >>),
      buildVS([name |-> "b", namespace |-> "dev"], << [username |-> "u1", password |-> "pw"] >>) }

\* ------------------------------------- images: one per name, newest date
\* a > b on strings of dashes and digits: by code units ("-" is below the
\* digits), a proper prefix is smaller
RECURSIVE StringGreater(_, _)
StringGreater(a, b) ==
    LET units == << "-", "0", "1", "2", "3", "4", "5", "6", "7", "8", "9" >>
        unit(c) == CHOOSE i \in 1..Len(units) : units[i] = c
    IN  IF a = << >> THEN FALSE
        ELSE IF b = << >> THEN TRUE
        ELSE IF Head(a) = Head(b) THEN StringGreater(Tail(a), Tail(b))
        ELSE unit(Head(a)) > unit(Head(b))
\* the first position from j on that holds no digit
RECURSIVE DigitsEnd(_, _)
DigitsEnd(cs, j) == IF j <= Len(cs) /\ IsDigit(cs[j]) THEN DigitsEnd(cs, j + 1) ELSE j
\* -\d*- matched at position i: the position of its closing dash, else 0
dashDigitsDash(cs, i) ==
    IF cs[i] # "-" THEN 0
    ELSE LET j == DigitsEnd(cs, i + 1)
         IN  IF j <= Len(cs) /\ cs[j] = "-" THEN j ELSE 0
\* /-\d*-(?!.*-\d*-)/ : the leftmost -digits- part after whose end no
\* -digits- part begins on the same line (the pattern has no s flag, so the
\* . of the lookahead does not pass a line terminator)
dateMatch(cs) ==
    LET closing == [i \in 1..Len(cs) |-> dashDigitsDash(cs, i)]
        lineTerminators == {"\n", "\r", "U+2028", "U+2029"}
        \* .* can run from position j up to, not including, position k
        sameLine(j, k) == \A x \in j..(k - 1) : cs[x] \notin lineTerminators
        at == { i \in 1..Len(cs) :
                  /\ closing[i] > 0
                  /\ \A k \in (closing[i] + 1)..Len(cs) :
                        closing[k] > 0 => ~sameLine(closing[i] + 1, k) }
    IN  IF at = {} THEN [found |-> FALSE]
        ELSE LET i == CHOOSE x \in at : \A y \in at : x <= y
             IN  [found |-> TRUE, from |-> i, to |-> closing[i]]
\* name.replace(/-\d*-(?!.*-\d*-)/, '-DATE-'), m the match of the pattern
dateBase(cs, m) ==
    IF m.found
    THEN SubSeq(cs, 1, m.from - 1) \o << "-", "D", "A", "T", "E", "-" >>
            \o SubSeq(cs, m.to + 1, Len(cs))
    ELSE cs
\* (name.match(/-\d*-(?!.*-\d*-)/) || [])[0], m the match of the pattern
dateOf(cs, m) ==
    IF m.found THEN [found |-> TRUE, text |-> SubSeq(cs, m.from, m.to)]
    ELSE [found |-> FALSE]
\* one step of the reduce: acc holds, in the order the bases were first
\* seen, the image kept for each base and its date; an image replaces the
\* kept one when its date is greater, and a comparison with undefined is
\* false; a base that names an inherited property is never entered
keepLatest(acc, i) ==
    LET name == Spelling(i.metadata.name)
        m == dateMatch(name)
        entry == [base |-> dateBase(name, m), image |-> i, date |-> dateOf(name, m)]
        at == { k \in 1..Len(acc) : acc[k].base = entry.base }
    IN  IF at = {}
        THEN IF entry.base \in { Spelling(k) : k \in PrototypeKeys } THEN acc
             ELSE Append(acc, entry)
        ELSE LET k == CHOOSE x \in at : TRUE
             IN  IF /\ entry.date.found
                    /\ acc[k].date.found
                    /\ StringGreater(entry.date.text, acc[k].date.text)
                 THEN [acc EXCEPT ![k] = entry]
                 ELSE acc
\* images.reduce((acc, i) => ..., {})
RECURSIVE reduceImages(_, _)
reduceImages(list, acc) ==
    IF list = << >> THEN acc ELSE reduceImages(Tail(list), keepLatest(acc, Head(list)))
\* Object.values(images.reduce(...)).map(i => i[0])
latestImages(list) ==
    LET acc == reduceImages(list, << >>)
    IN  [k \in 1..Len(acc) |-> acc[k].image]

\* the ttl option of a template write written without {ttl: false}
templateTtl_default == "default"
\* the ttl option of the template writes: {ttl: false}
templateTtl == "false"

\* ------------------------------------------------ node-persist calls
\* node-persist is not part of the source tree; its calls follow the Cache
\* Store contract: a write carries the store's ttl or none, an entry past
\* its ttl is absent on read, an entry without ttl never expires.
\* calcTTL: the expiry time of a write; {ttl: false} gives none, no option
\* gives now + the ttl of storage.init
calcTTL(ttlOption, now) ==
    IF ttlOption = "false"
    THEN [hasTtl |-> FALSE, ttl |-> 0]
    ELSE [hasTtl |-> TRUE, ttl |-> now + DefaultTtl]
\* isExpired(datum): datum.ttl < now
isExpired(datum, now) == datum.hasTtl /\ datum.ttl < now
\* storage.getItem(key): undefined for a missing or expired item
getItem(store, key, now) ==
    IF Has(store, key) /\ ~isExpired(store[key], now)
    THEN store[key].value ELSE Undefined
\* the store after getItem: an expired item is removed
storeAfterGet(store, key, now) ==
    IF Has(store, key) /\ isExpired(store[key], now) THEN Rest(store, key) ELSE store
\* storage.setItem(key, value, {ttl})
setItem(store, key, value, ttlOption, now) ==
    LET t == calcTTL(ttlOption, now)
    IN  Spread(store, key, [value |-> value, hasTtl |-> t.hasTtl, ttl |-> t.ttl])
\* why a read led to a fetch: the item was missing, expired, or held null
fetchCause(store, key, now) ==
    IF ~Has(store, key) THEN "absent"
    ELSE IF isExpired(store[key], now) THEN "expired" ELSE "null"

\* ----------------------------------------------------- store: steps
\* A step runs the process up to its next remote call; the calls on the
\* store read and write local files and take no time on the minute clock.

\* init(), lines 29-31: templates = getItem('_templates') || {} and
\* options = getItem('options'); a falsy read leads to the fetch
CacheInit ==
    /\ phase = "idle"
    /\ LET t == getItem(items, "_templates", clock)
           s1 == storeAfterGet(items, "_templates", clock)
           o == getItem(s1, "options", clock)
           l1 == Spread(EmptyObject, "_templates", IF Falsy(t) THEN Value(EmptyObject) ELSE t)
       IN  /\ items' = storeAfterGet(s1, "options", clock)
           /\ IF ~Falsy(o)
              THEN /\ loaded' = Spread(l1, "options", o)
                   /\ fetched' = EmptyObject
                   /\ phase' = "ready"
              ELSE /\ loaded' = l1
                   /\ fetched' = Spread(EmptyObject, "options", fetchCause(s1, "options", clock))
                   /\ phase' = "options"
    /\ UNCHANGED << clock, written >>
    /\ UNCHANGED << vars, flowVars >>

\* init(), lines 32-38: the fetch answers and the options are stored; a
\* failed fetch rejects init()
CacheOptions(fetchOk) ==
    /\ phase = "options"
    /\ IF fetchOk
       THEN /\ items' = setItem(items, "options", Value(Env.full.options), "default", clock)
            /\ loaded' = Spread(loaded, "options", Value(Env.full.options))
            /\ phase' = "ready"
       ELSE /\ phase' = "failed"
            /\ UNCHANGED << items, loaded >>
    /\ UNCHANGED << clock, fetched, written >>
    /\ UNCHANGED << vars, flowVars >>

\* main(), lines 44-45: images = getItem('images'); a falsy read leads to
\* client.image.list
CacheImages ==
    /\ phase = "ready"
    /\ LET i == getItem(items, "images", clock)
       IN  /\ items' = storeAfterGet(items, "images", clock)
           /\ IF ~Falsy(i)
              THEN /\ loaded' = Spread(loaded, "images", i)
                   /\ phase' = "definitions"
                   /\ UNCHANGED fetched
              ELSE /\ fetched' = Spread(fetched, "images", fetchCause(items, "images", clock))
                   /\ phase' = "imageList"
                   /\ UNCHANGED loaded
    /\ UNCHANGED << clock, written >>
    /\ UNCHANGED << vars, flowVars >>

\* main(), lines 46-62: the list answers; one image per name is kept, stored
\* and read back; a failed list gives [] and nothing is stored
CacheImageList(imagesOk, list) ==
    /\ phase = "imageList"
    /\ IF imagesOk
       THEN LET s1 == setItem(items, "images", Value(latestImages(list)), "default", clock)
            IN  /\ items' = storeAfterGet(s1, "images", clock)
                /\ loaded' = Spread(loaded, "images", getItem(s1, "images", clock))
       ELSE /\ loaded' = Spread(loaded, "images", Value(<< >>))
            /\ UNCHANGED items
    /\ phase' = "definitions"
    /\ UNCHANGED << clock, fetched, written >>
    /\ UNCHANGED << vars, flowVars >>

\* main(), lines 65-66: definitions = getItem('definitions'); a falsy read
\* leads to client.definition.list
CacheDefinitions ==
    /\ phase = "definitions"
    /\ LET d == getItem(items, "definitions", clock)
       IN  /\ items' = storeAfterGet(items, "definitions", clock)
           /\ IF ~Falsy(d)
              THEN /\ loaded' = Spread(loaded, "definitions", d)
                   /\ phase' = "wizard"
                   /\ UNCHANGED fetched
              ELSE /\ fetched' = Spread(fetched, "definitions",
                                        fetchCause(items, "definitions", clock))
                   /\ phase' = "definitionList"
                   /\ UNCHANGED loaded
    /\ UNCHANGED << clock, written >>
    /\ UNCHANGED << vars, flowVars >>

\* main(), lines 67-70: the list answers; the definitions are stored whether
\* the list gave them or null
CacheDefinitionList(definitionsOk) ==
    /\ phase = "definitionList"
    /\ LET definitions == IF definitionsOk THEN Value(Env.full.definitions) ELSE JsNull
       IN  /\ items' = setItem(items, "definitions", definitions, "default", clock)
           /\ loaded' = Spread(loaded, "definitions", definitions)
    /\ phase' = "wizard"
    /\ UNCHANGED << clock, fetched, written >>
    /\ UNCHANGED << vars, flowVars >>

\* main(), line 335: setItem('_templates', {...templates, [name]: vs}, {ttl: false})
\* with the descriptor that was built, under a name the validator accepted;
\* the process ends
CacheSave(n, descriptor) ==
    /\ phase = "wizard"
    /\ ~nameTaken(loaded["_templates"].data, n)
    /\ LET newTemplates == Value(Spread(loaded["_templates"].data, n, descriptor))
       IN  /\ items' = setItem(items, "_templates", newTemplates, templateTtl, clock)
           /\ written' = newTemplates.data
    /\ loaded' = EmptyObject
    /\ fetched' = EmptyObject
    /\ phase' = "idle"
    /\ UNCHANGED clock
    /\ UNCHANGED << vars, flowVars >>

\* deleteTemplate: setItem('_templates', newTemplates, {ttl: false}) unless the
\* loaded template set is empty; the process ends
CacheDelete(n) ==
    /\ phase = "ready"
    /\ IF deleteNotFound(loaded["_templates"].data, n)
       THEN UNCHANGED << items, written >>
       ELSE LET newTemplates == Value(Rest(loaded["_templates"].data, n))
            IN  /\ items' = setItem(items, "_templates", newTemplates, templateTtl, clock)
                /\ written' = newTemplates.data
    /\ loaded' = EmptyObject
    /\ fetched' = EmptyObject
    /\ phase' = "idle"
    /\ UNCHANGED clock
    /\ UNCHANGED << vars, flowVars >>

\* the process ends without a template write
CacheExit ==
    /\ phase \in {"ready", "wizard", "failed"}
    /\ loaded' = EmptyObject
    /\ fetched' = EmptyObject
    /\ phase' = "idle"
    /\ UNCHANGED << clock, items, written >>
    /\ UNCHANGED << vars, flowVars >>

\* time passes
Tick ==
    /\ clock + TickMinutes <= MaxClock
    /\ clock' = clock + TickMinutes
    /\ UNCHANGED << items, loaded, fetched, written, phase >>
    /\ UNCHANGED << vars, flowVars >>

CacheStart == Init /\ stored = EmptyObject

CacheNext ==
    \/ CacheInit
    \/ \E fetchOk \in BOOLEAN : CacheOptions(fetchOk)
    \/ CacheImages
    \/ \E imagesOk \in BOOLEAN, list \in ImageLists : CacheImageList(imagesOk, list)
    \/ CacheDefinitions
    \/ \E definitionsOk \in BOOLEAN : CacheDefinitionList(definitionsOk)
    \/ \E n \in TemplateNames, descriptor \in BuiltDescriptors : CacheSave(n, descriptor)
    \/ \E n \in Names : CacheDelete(n)
    \/ CacheExit
    \/ Tick

CacheSpec == CacheStart /\ [][CacheNext]_allVars

\* ------------------------------------------------ claims on the store
\* the store holds an item under k that is older than its TTL
PastTtl(k) == Has(items, k) /\ items[k].hasTtl /\ items[k].ttl < clock
\* the store holds an item under k that is not expired
Held(k) == Has(items, k) /\ ~PastTtl(k)
\* a process that has passed init()
Running == {"options", "ready", "imageList", "definitions", "definitionList", "wizard", "failed"}
\* the cached lookup the step reads with its first getItem: init() reads
\* options, main() reads images, then definitions
KeysRead ==
    IF phase = "idle" /\ phase' # "idle" THEN {"options"}
    ELSE IF phase = "ready" /\ phase' \in {"definitions", "imageList"} THEN {"images"}
    ELSE IF phase = "definitions" /\ phase' # "definitions" THEN {"definitions"}
    ELSE {}
\* the template item has no TTL and a running process has loaded the template
\* set of the last write
TemplatesKept ==
    /\ Has(items, "_templates") =>
          /\ ~items["_templates"].hasTtl
          /\ items["_templates"].value = Value(written)
    /\ phase \in Running => loaded["_templates"] = Value(written)

C19_StepOriginal ==
    \A k \in KeysRead :
        /\ PastTtl(k) => Has(fetched', k)
        /\ ~Has(items, k) => Has(fetched', k)
        /\ Held(k) => /\ ~Has(fetched', k)
                      /\ loaded'[k] = items[k].value

\* C19: templates never expire while cached lookups do: at any time, after
\* any saves and deletes, the template set read is the last one written (it
\* has no TTL); an images, definitions or options entry older than the
\* 10-minute TTL reads as absent and is fetched again; an entry that is not
\* expired is served from the store without a remote fetch.
C19_TemplatesKeptLookupsExpire == [](TemplatesKept) /\ [][C19_StepOriginal]_allVars

C19_StepAmended ==
    \A k \in KeysRead :
        /\ PastTtl(k) => Has(fetched', k)
        /\ ~Has(items, k) => Has(fetched', k)
        /\ (Held(k) /\ items[k].value # JsNull) =>
              /\ ~Has(fetched', k)
              /\ loaded'[k] = items[k].value
        /\ (Held(k) /\ items[k].value = JsNull) =>
              /\ k = "definitions"
              /\ Has(fetched', k)

\* C19 amended: as C19, except that an unexpired entry is served from the
\* store only when it holds a value; the definitions entry written after a
\* failed lookup holds null and is fetched again on the next read.
C19_Amended == [](TemplatesKept) /\ [][C19_StepAmended]_allVars

\* a run after the TTL has passed: the templates saved earlier are loaded,
\* the expired image list was fetched again, the unexpired options were not
C19_Witness ==
    /\ phase = "wizard"
    /\ clock > DefaultTtl
    /\ loaded["_templates"].data # EmptyObject
    /\ loaded["_templates"].data = written
    /\ Has(fetched, "images")
    /\ fetched["images"] = "expired"
    /\ ~Has(fetched, "options")

====
